---- MODULE Spec2Model ----
(***************************************************************************)
(* Droppable collection state (useDroppableCollectionState): the stored    *)
(* drop target with its enter/exit notifications, and the resolution of    *)
(* the drop operation permitted at a target; with it the draggable item    *)
(* hook and the column headers of the table view.                          *)
(*                                                                         *)
(* Spec        : the target state machine (setTarget, isDropTarget,        *)
(*               re-render, removal of an item from the collection).       *)
(* SpecOp      : getDropOperation applied to every drag event under every  *)
(*               host configuration.                                       *)
(* SpecPure    : the helper functions applied to every argument.           *)
(* SpecSession : setTarget, isDropTarget and getDropOperation interleaved. *)
(* SpecDrag    : a draggable item of the collection (useDraggableItem).    *)
(* SpecTable   : the column headers of the table view.                     *)
(* SpecLoad    : the table virtualizer asking the host for more rows.      *)
(***************************************************************************)
EXTENDS Integers, Sequences, FiniteSets

\* ------------------------------------------------------------------ bounds
\* Number of items of the collection in the target state machine.
NumKeys == 2
\* Number of item keys a drag event of SpecOp may mention.
NumOpKeys == 2
\* Largest content height, visible height and scroll offset of the table.
MaxHeight == 2

\* ------------------------------------------------------------ data model
\* The absent key (null) that getKeyBefore/getKeyAfter return at a boundary.
NoKey == 0

Keys == 1..NumKeys
OpKeys == 1..NumOpKeys

DropPositions == {"before", "after", "on"}

\* DropTarget values. null and undefined are the two falsy values a
\* DropTarget-typed expression can hold.
Null == [type |-> "null", key |-> NoKey, dropPosition |-> "none"]
Undefined == [type |-> "undefined", key |-> NoKey, dropPosition |-> "none"]
Root == [type |-> "root", key |-> NoKey, dropPosition |-> "none"]
Item(k, p) == [type |-> "item", key |-> k, dropPosition |-> p]

ItemTargets(ks) == {Item(k, p) : k \in ks, p \in DropPositions}
\* What a caller may pass to setTarget / isDropTarget.
Targets == {Null, Root} \cup ItemTargets(Keys)

\* JavaScript truthiness of a DropTarget-typed value.
Truthy(t) == t.type \notin {"null", "undefined"}

\* ------------------------------------------------------------- Collection
\* An ordered container of distinct keys, modelled as a sequence.
IndexOf(coll, k) == IF \E i \in 1..Len(coll) : coll[i] = k
                    THEN CHOOSE i \in 1..Len(coll) : coll[i] = k
                    ELSE 0

\* collection.getKeyBefore(key): the preceding key, null at the start or for
\* a key the collection does not hold.
GetKeyBefore(coll, k) ==
  LET i == IndexOf(coll, k) IN IF i > 1 THEN coll[i - 1] ELSE NoKey

\* collection.getKeyAfter(key): the following key, null at the end or for a
\* key the collection does not hold.
GetKeyAfter(coll, k) ==
  LET i == IndexOf(coll, k)
  IN IF i >= 1 /\ i < Len(coll) THEN coll[i + 1] ELSE NoKey

\* The collection without key k.
Without(coll, k) == SelectSeq(coll, LAMBDA x : x # k)

\* --------------------------------------------------------- pure functions
\* Mutant of IsEqualDropTarget: item targets are compared by key alone.
IsEqualDropTargetKeyOnly(a, b) ==
  IF ~Truthy(a)
  THEN ~Truthy(b)
  ELSE CASE a.type = "root" -> b.type = "root"
         [] a.type = "item" -> b.type = "item" /\ b.key = a.key

\* isEqualDropTarget(a, b)
IsEqualDropTarget(a, b) ==
  IF ~Truthy(a)
  THEN ~Truthy(b)
  ELSE CASE a.type = "root" -> b.type = "root"
         [] a.type = "item" -> /\ b.type = "item"
                               /\ b.key = a.key
                               /\ b.dropPosition = a.dropPosition

\* Mutant of GetOppositeTarget: past the first or last item the neighbour is
\* looked up from the other end of the collection.
GetOppositeTargetWraps(coll, t) ==
  IF t.dropPosition = "before"
  THEN LET key == GetKeyBefore(coll, t.key)
       IN IF key # NoKey THEN Item(key, "after")
          ELSE IF Len(coll) > 0 THEN Item(coll[Len(coll)], "after") ELSE Null
  ELSE IF t.dropPosition = "after"
  THEN LET key == GetKeyAfter(coll, t.key)
       IN IF key # NoKey THEN Item(key, "before")
          ELSE IF Len(coll) > 0 THEN Item(coll[1], "before") ELSE Null
  ELSE Undefined

\* Mutant of GetOppositeTarget: the neighbour is named with the position of
\* the original target instead of the opposite one.
GetOppositeTargetSamePosition(coll, t) ==
  IF t.dropPosition = "before"
  THEN LET key == GetKeyBefore(coll, t.key)
       IN IF key # NoKey THEN Item(key, "before") ELSE Null
  ELSE IF t.dropPosition = "after"
  THEN LET key == GetKeyAfter(coll, t.key)
       IN IF key # NoKey THEN Item(key, "after") ELSE Null
  ELSE Undefined

\* getOppositeTarget(target): the same boundary named from the neighbour;
\* null when there is no neighbour, undefined for position 'on'.
GetOppositeTarget(coll, t) ==
  IF t.dropPosition = "before"
  THEN LET key == GetKeyBefore(coll, t.key)
       IN IF key # NoKey THEN Item(key, "after") ELSE Null
  ELSE IF t.dropPosition = "after"
  THEN LET key == GetKeyAfter(coll, t.key)
       IN IF key # NoKey THEN Item(key, "before") ELSE Null
  ELSE Undefined

\* Mutant of IsDropTargetOf: direct equality only, the shared-boundary check
\* is lost.
IsDropTargetEqualOnly(coll, ref, dropTarget) ==
  IsEqualDropTarget(dropTarget, ref)

\* Mutant of IsDropTargetOf: any two before/after item targets with different
\* keys and positions count as one boundary, adjacent or not.
IsDropTargetAnyBoundary(coll, ref, dropTarget) ==
  \/ IsEqualDropTarget(dropTarget, ref)
  \/ /\ dropTarget.type = "item"
     /\ ref.type = "item"
     /\ dropTarget.key # ref.key
     /\ dropTarget.dropPosition # ref.dropPosition
     /\ dropTarget.dropPosition # "on"
     /\ ref.dropPosition # "on"

\* Mutant of IsDropTargetOf: a null candidate never matches, not even a null
\* stored target.
IsDropTargetNullNeverMatches(coll, ref, dropTarget) ==
  IF ~Truthy(dropTarget)
  THEN FALSE
  ELSE IF IsEqualDropTarget(dropTarget, ref)
  THEN TRUE
  ELSE IF /\ dropTarget.type = "item"
          /\ ref.type = "item"
          /\ dropTarget.key # ref.key
          /\ dropTarget.dropPosition # ref.dropPosition
          /\ dropTarget.dropPosition # "on"
          /\ ref.dropPosition # "on"
  THEN \/ IsEqualDropTarget(GetOppositeTarget(coll, dropTarget), ref)
       \/ IsEqualDropTarget(dropTarget, GetOppositeTarget(coll, ref))
  ELSE FALSE

\* Mutant of IsDropTargetOf: a shared boundary is recognised only when the
\* candidate names it from the item after it.
IsDropTargetBeforeOnly(coll, ref, dropTarget) ==
  IF IsEqualDropTarget(dropTarget, ref)
  THEN TRUE
  ELSE IF /\ dropTarget.type = "item"
          /\ ref.type = "item"
          /\ dropTarget.key # ref.key
          /\ dropTarget.dropPosition = "before"
          /\ ref.dropPosition = "after"
  THEN \/ IsEqualDropTarget(GetOppositeTarget(coll, dropTarget), ref)
       \/ IsEqualDropTarget(dropTarget, GetOppositeTarget(coll, ref))
  ELSE FALSE

\* isDropTarget(dropTarget), reading targetRef.current = ref.
IsDropTargetOf(coll, ref, dropTarget) ==
  IF IsEqualDropTarget(dropTarget, ref)
  THEN TRUE
  ELSE IF /\ dropTarget.type = "item"
          /\ ref.type = "item"
          /\ dropTarget.key # ref.key
          /\ dropTarget.dropPosition # ref.dropPosition
          /\ dropTarget.dropPosition # "on"
          /\ ref.dropPosition # "on"
  THEN \/ IsEqualDropTarget(GetOppositeTarget(coll, dropTarget), ref)
       \/ IsEqualDropTarget(dropTarget, GetOppositeTarget(coll, ref))
  ELSE FALSE

\* ------------------------------------------------------ host configuration
\* Drag type tags.
Types == {"text/plain", "text/html"}

\* acceptedDragTypes: 'all' or a list of type tags (its order is immaterial
\* to Array.some, so the list is kept as a set).
AcceptAll == [all |-> TRUE, types |-> {}]
AcceptOnly(ts) == [all |-> FALSE, types |-> ts]
AcceptedDragTypes == {AcceptAll, AcceptOnly({"text/plain"}), AcceptOnly(Types)}

\* Host callbacks that only need to be present or absent are BOOLEAN.  The
\* two callbacks whose return value is used are one of a few functions.
ShouldAcceptItemDrops == {"none", "firstKeyOnly"}
CustomGetDropOperations == {"none", "alwaysLink", "copyOnRootElseCancel"}

HostProps == [acceptedDragTypes : AcceptedDragTypes,
              onInsert : BOOLEAN, onReorder : BOOLEAN, onRootDrop : BOOLEAN,
              onItemDrop : BOOLEAN, onDrop : BOOLEAN,
              shouldAcceptItemDrop : ShouldAcceptItemDrops,
              getDropOperation : CustomGetDropOperations,
              onDropEnter : BOOLEAN, onDropExit : BOOLEAN]

\* No drop handler at all, default acceptedDragTypes = 'all'.
NoHandlers(enter, exit) ==
  [acceptedDragTypes |-> AcceptAll,
   onInsert |-> FALSE, onReorder |-> FALSE, onRootDrop |-> FALSE,
   onItemDrop |-> FALSE, onDrop |-> FALSE,
   shouldAcceptItemDrop |-> "none", getDropOperation |-> "none",
   onDropEnter |-> enter, onDropExit |-> exit]

\* ------------------------------------------------------------------ state
VARIABLES
  props,        \* the host options the hook was called with
  collection,   \* props.collection, the ordered keys
  target,       \* state.target: the useState value as of the last render
  targetState,  \* the useState cell: last value passed to its setter
  targetRef,    \* targetRef.current
  fired,        \* notifications invoked by the most recent operation
  call,         \* the most recent operation on the target state
  prev,         \* the operation before it
  opCall,       \* the most recent getDropOperation call and its result
  opFirst,      \* the first getDropOperation call since the hook was set up
  pure,         \* the most recent direct application of a helper function
  ledger,       \* the enter notification still open, and whether every
                \* notification so far alternated and matched
  column,       \* column.props of the column a header is rendered for
  header,       \* what rendering the column header produced
  tableState,   \* the table's sort descriptor and column resize state
  item,         \* the draggable item: its props, disabled flag and modality
  dragState,    \* DraggableCollectionState: the keys being dragged
  globalDnD,    \* the module-scope drag session state of the dnd utilities
  dragLog,      \* the most recent event handled by the draggable item
  virtualizer,  \* the table body's loading props and the virtualizer state
  loadLog       \* the most recent step of the table virtualizer, and
                \* whether it invoked onLoadMore

vars == <<props, collection, target, targetState, targetRef, fired, call, prev,
          ledger, opCall, opFirst, pure, column, header, tableState,
          item, dragState, globalDnD, dragLog, virtualizer, loadLog>>
targetVars == <<collection, target, targetState, targetRef, fired, call, prev,
                ledger>>
dropVars == <<props, targetVars, opCall, opFirst, pure>>
loadVars == <<virtualizer, loadLog>>
tableVars == <<column, header, tableState, loadVars>>
dragVars == <<item, dragState, globalDnD, dragLog>>

NoCall == [op |-> "none", arg |-> Null, before |-> Null, result |-> FALSE]
NoPrev == [op |-> "none", arg |-> Null]
\* What is remembered of an operation once the next one has run: a setTarget
\* call and its argument, or that it was something else.
Summary(c) == IF c.op = "setTarget" THEN [op |-> c.op, arg |-> c.arg] ELSE NoPrev

\* ------------------------------------------------------------- setTarget
\* The drop enter / drop exit event handed to the host.  `stored` is not a
\* field of the event: it records targetRef.current as the callback sees it.
DropEvent(type, t, ref) == [type |-> type, x |-> 0, y |-> 0, target |-> t, stored |-> ref]

\* The account kept of the notifications: `entered` is the target of the
\* onDropEnter not yet answered by an onDropExit (null if there is none), and
\* `balanced` says that so far every onDropExit carried the target of the open
\* onDropEnter and every onDropEnter came while none was open.  While balanced
\* the notifications alternate starting with an enter, so the number of
\* enters minus the number of exits is 1 if an enter is open and 0 otherwise.
NoLedger == [entered |-> Null, balanced |-> TRUE]

Post(l, ev) ==
  IF ev.type = "dropenter"
  THEN [entered |-> ev.target, balanced |-> l.balanced /\ l.entered = Null]
  ELSE [entered |-> Null, balanced |-> l.balanced /\ l.entered = ev.target]

RECURSIVE Record(_, _)
Record(l, events) ==
  IF events = <<>> THEN l ELSE Record(Post(l, Head(events)), Tail(events))

\* Mutant of SetTargetOutcome: the enter notification is sent before the exit.
SetTargetEnterFirst(p, coll, ref, state, newTarget) ==
  IF IsDropTargetOf(coll, ref, newTarget)
  THEN [fired |-> <<>>, targetState |-> state, targetRef |-> ref]
  ELSE LET exit == IF Truthy(ref) /\ p.onDropExit
                   THEN <<DropEvent("dropexit", ref, ref)>> ELSE <<>>
           enter == IF Truthy(newTarget) /\ p.onDropEnter
                    THEN <<DropEvent("dropenter", newTarget, ref)>> ELSE <<>>
       IN [fired |-> enter \o exit, targetState |-> newTarget, targetRef |-> newTarget]

\* Mutant of SetTargetOutcome: a logically-equal new target is still written,
\* replacing the stored representation, though nothing is notified.
SetTargetRewrites(p, coll, ref, state, newTarget) ==
  IF IsDropTargetOf(coll, ref, newTarget)
  THEN [fired |-> <<>>, targetState |-> newTarget, targetRef |-> newTarget]
  ELSE LET exit == IF Truthy(ref) /\ p.onDropExit
                   THEN <<DropEvent("dropexit", ref, ref)>> ELSE <<>>
           enter == IF Truthy(newTarget) /\ p.onDropEnter
                    THEN <<DropEvent("dropenter", newTarget, ref)>> ELSE <<>>
       IN [fired |-> exit \o enter, targetState |-> newTarget, targetRef |-> newTarget]

\* Mutant of SetTargetOutcome: clearing the target (newTarget null) sends no
\* exit notification.
SetTargetSilentClear(p, coll, ref, state, newTarget) ==
  IF IsDropTargetOf(coll, ref, newTarget)
  THEN [fired |-> <<>>, targetState |-> state, targetRef |-> ref]
  ELSE LET exit == IF Truthy(ref) /\ Truthy(newTarget) /\ p.onDropExit
                   THEN <<DropEvent("dropexit", ref, ref)>> ELSE <<>>
           enter == IF Truthy(newTarget) /\ p.onDropEnter
                    THEN <<DropEvent("dropenter", newTarget, ref)>> ELSE <<>>
       IN [fired |-> exit \o enter, targetState |-> newTarget, targetRef |-> newTarget]

\* Mutant of SetTargetOutcome: the new target reaches the useState cell but
\* targetRef.current is not updated.
SetTargetStateOnly(p, coll, ref, state, newTarget) ==
  IF IsDropTargetOf(coll, ref, newTarget)
  THEN [fired |-> <<>>, targetState |-> state, targetRef |-> ref]
  ELSE LET exit == IF Truthy(ref) /\ p.onDropExit
                   THEN <<DropEvent("dropexit", ref, ref)>> ELSE <<>>
           enter == IF Truthy(newTarget) /\ p.onDropEnter
                    THEN <<DropEvent("dropenter", newTarget, ref)>> ELSE <<>>
       IN [fired |-> exit \o enter, targetState |-> newTarget, targetRef |-> ref]

\* Mutant of SetTargetOutcome: the exit notification is sent even when no
\* target was stored.
SetTargetExitsFromNull(p, coll, ref, state, newTarget) ==
  IF IsDropTargetOf(coll, ref, newTarget)
  THEN [fired |-> <<>>, targetState |-> state, targetRef |-> ref]
  ELSE LET exit == IF p.onDropExit
                   THEN <<DropEvent("dropexit", ref, ref)>> ELSE <<>>
           enter == IF Truthy(newTarget) /\ p.onDropEnter
                    THEN <<DropEvent("dropenter", newTarget, ref)>> ELSE <<>>
       IN [fired |-> exit \o enter, targetState |-> newTarget, targetRef |-> newTarget]

\* Mutant of SetTargetOutcome: the exit notification carries the incoming
\* target instead of the outgoing one.
SetTargetExitCarriesNew(p, coll, ref, state, newTarget) ==
  IF IsDropTargetOf(coll, ref, newTarget)
  THEN [fired |-> <<>>, targetState |-> state, targetRef |-> ref]
  ELSE LET exit == IF Truthy(ref) /\ p.onDropExit
                   THEN <<DropEvent("dropexit", newTarget, ref)>> ELSE <<>>
           enter == IF Truthy(newTarget) /\ p.onDropEnter
                    THEN <<DropEvent("dropenter", newTarget, ref)>> ELSE <<>>
       IN [fired |-> exit \o enter, targetState |-> newTarget, targetRef |-> newTarget]

\* setTarget(newTarget): the notifications fired and the values written.
SetTargetOutcome(p, coll, ref, state, newTarget) ==
  IF IsDropTargetOf(coll, ref, newTarget)
  THEN [fired |-> <<>>, targetState |-> state, targetRef |-> ref]
  ELSE LET exit == IF Truthy(ref) /\ p.onDropExit
                   THEN <<DropEvent("dropexit", ref, ref)>> ELSE <<>>
           enter == IF Truthy(newTarget) /\ p.onDropEnter
                    THEN <<DropEvent("dropenter", newTarget, ref)>> ELSE <<>>
       IN [fired |-> exit \o enter, targetState |-> newTarget, targetRef |-> newTarget]

SetTarget(newTarget) ==
  LET out == SetTargetOutcome(props, collection, targetRef, targetState, newTarget)
  IN /\ fired' = out.fired
     /\ targetState' = out.targetState
     /\ targetRef' = out.targetRef
     /\ call' = [op |-> "setTarget", arg |-> newTarget, before |-> targetRef,
                 result |-> IsDropTargetOf(collection, targetRef, newTarget)]
     /\ prev' = Summary(call)
     /\ ledger' = Record(ledger, out.fired)
     /\ UNCHANGED <<props, collection, target, opCall, opFirst, pure, tableVars, dragVars>>

\* Mutant of IsDropTarget: the candidate asked about becomes the stored
\* target.
IsDropTargetStores(dropTarget) ==
  /\ call' = [op |-> "isDropTarget", arg |-> dropTarget, before |-> targetRef,
              result |-> IsDropTargetOf(collection, targetRef, dropTarget)]
  /\ prev' = Summary(call)
  /\ fired' = <<>>
  /\ targetRef' = dropTarget
  /\ targetState' = dropTarget
  /\ UNCHANGED <<ledger, props, collection, target, opCall, opFirst, pure, tableVars, dragVars>>

\* isDropTarget(dropTarget): a read of the stored target.
IsDropTarget(dropTarget) ==
  /\ call' = [op |-> "isDropTarget", arg |-> dropTarget, before |-> targetRef,
              result |-> IsDropTargetOf(collection, targetRef, dropTarget)]
  /\ prev' = Summary(call)
  /\ fired' = <<>>
  /\ UNCHANGED <<ledger, props, collection, target, targetState, targetRef, opCall, opFirst, pure, tableVars, dragVars>>

\* A re-render after a state update: the hook returns the current useState
\* value as state.target.
Render ==
  /\ target # targetState
  /\ target' = targetState
  /\ call' = [op |-> "render", arg |-> Null, before |-> targetRef, result |-> FALSE]
  /\ prev' = Summary(call)
  /\ fired' = <<>>
  /\ UNCHANGED <<ledger, props, collection, targetState, targetRef, opCall, opFirst, pure, tableVars, dragVars>>

\* The host re-renders with an item removed from the collection.
RemoveItem(k) ==
  /\ IndexOf(collection, k) # 0
  /\ collection' = Without(collection, k)
  /\ target' = targetState
  /\ call' = [op |-> "removeItem", arg |-> Null, before |-> targetRef, result |-> FALSE]
  /\ prev' = Summary(call)
  /\ fired' = <<>>
  /\ UNCHANGED <<ledger, props, targetState, targetRef, opCall, opFirst, pure, tableVars, dragVars>>

NoOpCall == [called |-> FALSE]
NoPure == [fn |-> "none"]

\* ------------------------------------------------------- table columns
\* A column's width prop: absent, a number of pixels, or a percentage string.
NoWidth == [kind |-> "undefined", value |-> 0]
NumberWidth(n) == [kind |-> "number", value |-> n]
PercentWidth(n) == [kind |-> "percent", value |-> n]
ColumnWidths == {NoWidth, NumberWidth(0), NumberWidth(150), PercentWidth(50)}

\* JavaScript truthiness of a width: undefined and the number 0 are falsy, a
\* non-empty string such as '50%' is truthy.
WidthTruthy(w) ==
  CASE w.kind = "undefined" -> FALSE
    [] w.kind = "number" -> w.value # 0
    [] w.kind = "percent" -> TRUE

\* column.props as far as the header rendering reads them.
ColumnProps == [isSelectionCell : BOOLEAN, hideHeader : BOOLEAN,
                allowsResizing : BOOLEAN, allowsSorting : BOOLEAN,
                width : ColumnWidths]

\* The table before any sort or column resize.
NoTableState == [sortDescriptor |-> "none", currentlyResizingColumn |-> FALSE,
                 isInResizeMode |-> FALSE]

\* collection.body.props.loadingState
LoadingStates == {"idle", "loading", "loadingMore", "filtering"}

\* collection.body.props.onLoadMore: absent, or one of two functions (a host
\* may pass a new function on a later render).
NoOnLoadMore == "undefined"
OnLoadMoreProps == {NoOnLoadMore, "f", "g"}

Heights == 0..MaxHeight

\* The widths a visible rect may have.
RectWidths == {1, 2}

\* The rect the virtualizer reports to onVisibleRectChange.
Rects == [y : Heights, height : Heights, width : RectWidths]

\* The body's loading props, the virtualizer's content height, visible rect
\* and animation flag, and the table width kept by the component.
VirtualizerStates ==
  [loadingState : LoadingStates, onLoadMore : OnLoadMoreProps,
   contentHeight : Heights, visibleRect : Rects, isAnimating : BOOLEAN,
   tableWidth : RectWidths]

NoLoadLog == [op |-> "none", effect |-> FALSE, invoked |-> FALSE]

\* The table virtualizer is not mounted.
LoadIdle ==
  /\ virtualizer = [loadingState |-> "idle", onLoadMore |-> NoOnLoadMore,
                    contentHeight |-> 0,
                    visibleRect |-> [y |-> 0, height |-> 0, width |-> 1],
                    isAnimating |-> FALSE, tableWidth |-> 1]
  /\ loadLog = NoLoadLog

\* No column header has been rendered.
TableIdle ==
  /\ LoadIdle
  /\ column = [isSelectionCell |-> FALSE, hideHeader |-> FALSE,
               allowsResizing |-> FALSE, allowsSorting |-> FALSE,
               width |-> NoWidth]
  /\ header = "none"
  /\ tableState = NoTableState

\* ------------------------------------------------------ draggable items
\* The selected keys of the collection's selection manager.
Selections == SUBSET Keys

\* useDragModality(): how the user is interacting.
Modalities == {"keyboard", "touch", "virtual"}

\* What useDraggableItem works from: props.key, props.hasDragButton,
\* props.hasAction, what the DraggableCollectionState says of the item, and
\* the drag modality.
DraggableItems == [key : Keys, hasDragButton : BOOLEAN, hasAction : BOOLEAN,
                   isDisabled : BOOLEAN, selection : Selections,
                   modality : Modalities]

\* No drag in progress.
NoDragState == [draggingKeys |-> {}]
NoGlobalDnD == [draggingKeys |-> {}, isInternal |-> FALSE]
NoDragLog == [op |-> "none"]

DragIdle ==
  /\ item = [key |-> 1, hasDragButton |-> FALSE, hasAction |-> FALSE,
             isDisabled |-> FALSE, selection |-> {}, modality |-> "keyboard"]
  /\ dragState = NoDragState
  /\ globalDnD = NoGlobalDnD
  /\ dragLog = NoDragLog

\* The droppable collection state as the hook leaves it when set up.
DropIdle ==
  /\ props = NoHandlers(FALSE, FALSE)
  /\ collection = [i \in 1..NumKeys |-> i]
  /\ target = Null
  /\ targetState = Null
  /\ targetRef = Null
  /\ fired = <<>>
  /\ call = NoCall
  /\ prev = NoPrev
  /\ ledger = NoLedger
  /\ opCall = NoOpCall
  /\ opFirst = NoOpCall
  /\ pure = NoPure

Init ==
  /\ props \in {NoHandlers(enter, exit) : enter \in BOOLEAN, exit \in BOOLEAN}
  /\ collection = [i \in 1..NumKeys |-> i]
  /\ target = Null
  /\ targetState = Null
  /\ targetRef = Null
  /\ fired = <<>>
  /\ call = NoCall
  /\ prev = NoPrev
  /\ ledger = NoLedger
  /\ opCall = NoOpCall
  /\ opFirst = NoOpCall
  /\ pure = NoPure
  /\ TableIdle
  /\ DragIdle

Next ==
  \/ \E t \in Targets : SetTarget(t)
  \/ \E t \in Targets : IsDropTarget(t)
  \/ Render
  \/ \E k \in Keys : RemoveItem(k)

Spec == Init /\ [][Next]_vars

\* ------------------------------------------------------ getDropOperation
\* What the drag source permits, first preference first.
AllowedOperationLists == {<<>>, <<"move", "copy">>}

\* DropOperationEvent: the argument of getDropOperation.
DropOperationEvents ==
  [target : {Root} \cup ItemTargets(OpKeys),
   types : SUBSET Types \ {{}},
   allowedOperations : AllowedOperationLists,
   isInternal : BOOLEAN,
   draggingKeys : SUBSET OpKeys]

\* The key the "firstKeyOnly" acceptance predicate accepts.
FirstKey == CHOOSE k \in OpKeys : \A j \in OpKeys : k <= j

\* The host's shouldAcceptItemDrop(target, types).
ShouldAcceptItemDrop(cb, t, types) ==
  CASE cb = "firstKeyOnly" -> t.key = FirstKey

\* The host's getDropOperation(target, types, allowedOperations).
CustomGetDropOperation(cb, t, types, allowedOperations) ==
  CASE cb = "alwaysLink" -> "link"
    [] cb = "copyOnRootElseCancel" -> IF t.type = "root" THEN "copy" ELSE "cancel"

\* allowedOperations[0]: undefined for an empty array.
FirstOperation(allowedOperations) ==
  IF Len(allowedOperations) > 0 THEN allowedOperations[1] ELSE "undefined"

\* Mutant of TypeGate: the accepted types are never compared with the drag's.
TypeGateOpen(p, e) == TRUE

\* acceptedDragTypes === 'all' || acceptedDragTypes.some(type => types.has(type))
TypeGate(p, e) ==
  \/ p.acceptedDragTypes.all
  \/ \E type \in p.acceptedDragTypes.types : type \in e.types

\* Mutant of IsValidInsert: internal drags are let through.
IsValidInsertAnySource(p, e) ==
  /\ p.onInsert
  /\ e.target.type = "item"
  /\ (e.target.dropPosition = "before" \/ e.target.dropPosition = "after")

IsValidInsert(p, e) ==
  /\ p.onInsert
  /\ e.target.type = "item"
  /\ ~e.isInternal
  /\ (e.target.dropPosition = "before" \/ e.target.dropPosition = "after")

\* Mutant of IsValidReorder: the drag need not be internal.
IsValidReorderAnySource(p, e) ==
  /\ p.onReorder
  /\ e.target.type = "item"
  /\ (e.target.dropPosition = "before" \/ e.target.dropPosition = "after")

IsValidReorder(p, e) ==
  /\ p.onReorder
  /\ e.target.type = "item"
  /\ e.isInternal
  /\ (e.target.dropPosition = "before" \/ e.target.dropPosition = "after")

\* Mutant of IsValidRootDrop: internal drags are let through.
IsValidRootDropInternalToo(p, e) ==
  /\ p.onRootDrop
  /\ e.target.type = "root"

\* Mutant of IsValidRootDrop: the target need not be the root.
IsValidRootDropAnyTarget(p, e) ==
  /\ p.onRootDrop
  /\ ~e.isInternal

IsValidRootDrop(p, e) ==
  /\ p.onRootDrop
  /\ e.target.type = "root"
  /\ ~e.isInternal

\* Mutant of IsValidOnItemDrop: shouldAcceptItemDrop is never asked.
IsValidOnItemDropNoVeto(p, e) ==
  /\ p.onItemDrop
  /\ e.target.type = "item"
  /\ e.target.dropPosition = "on"
  /\ ~(e.isInternal /\ e.target.key \in e.draggingKeys)

\* Mutant of IsValidOnItemDrop: an item may be dropped on itself.
IsValidOnItemDropSelfToo(p, e) ==
  /\ p.onItemDrop
  /\ e.target.type = "item"
  /\ e.target.dropPosition = "on"
  /\ (\/ p.shouldAcceptItemDrop = "none"
      \/ ShouldAcceptItemDrop(p.shouldAcceptItemDrop, e.target, e.types))

IsValidOnItemDrop(p, e) ==
  /\ p.onItemDrop
  /\ e.target.type = "item"
  /\ e.target.dropPosition = "on"
  /\ ~(e.isInternal /\ e.target.key \in e.draggingKeys)
  /\ (\/ p.shouldAcceptItemDrop = "none"
      \/ ShouldAcceptItemDrop(p.shouldAcceptItemDrop, e.target, e.types))

\* Mutant of DefaultGetDropOperation: onDrop does not open the permission gate.
DefaultGetDropOperationNoCatchAll(p, e) ==
  IF /\ TypeGate(p, e)
     /\ \/ IsValidInsert(p, e)
        \/ IsValidReorder(p, e)
        \/ IsValidRootDrop(p, e)
        \/ IsValidOnItemDrop(p, e)
  THEN IF p.getDropOperation # "none"
       THEN [result |-> CustomGetDropOperation(p.getDropOperation, e.target,
                                               e.types, e.allowedOperations),
             return |-> "custom"]
       ELSE [result |-> FirstOperation(e.allowedOperations), return |-> "first"]
  ELSE [result |-> "cancel", return |-> "cancel"]

\* Mutant of DefaultGetDropOperation: the host's getDropOperation is ignored.
DefaultGetDropOperationNoCustom(p, e) ==
  IF /\ TypeGate(p, e)
     /\ \/ p.onDrop
        \/ IsValidInsert(p, e)
        \/ IsValidReorder(p, e)
        \/ IsValidRootDrop(p, e)
        \/ IsValidOnItemDrop(p, e)
  THEN [result |-> FirstOperation(e.allowedOperations), return |-> "first"]
  ELSE [result |-> "cancel", return |-> "cancel"]

\* Mutant of DefaultGetDropOperation: a supplied getDropOperation is asked
\* as soon as the type gate has passed, before the permission gate.
DefaultGetDropOperationCustomFirst(p, e) ==
  IF TypeGate(p, e) /\ p.getDropOperation # "none"
  THEN [result |-> CustomGetDropOperation(p.getDropOperation, e.target,
                                          e.types, e.allowedOperations),
        return |-> "custom"]
  ELSE IF /\ TypeGate(p, e)
          /\ \/ p.onDrop
             \/ IsValidInsert(p, e)
             \/ IsValidReorder(p, e)
             \/ IsValidRootDrop(p, e)
             \/ IsValidOnItemDrop(p, e)
  THEN [result |-> FirstOperation(e.allowedOperations), return |-> "first"]
  ELSE [result |-> "cancel", return |-> "cancel"]

\* defaultGetDropOperation(e): the value returned, and which of the three
\* return statements returned it ("custom", "first" or "cancel").
DefaultGetDropOperation(p, e) ==
  IF /\ TypeGate(p, e)
     /\ \/ p.onDrop
        \/ IsValidInsert(p, e)
        \/ IsValidReorder(p, e)
        \/ IsValidRootDrop(p, e)
        \/ IsValidOnItemDrop(p, e)
  THEN IF p.getDropOperation # "none"
       THEN [result |-> CustomGetDropOperation(p.getDropOperation, e.target,
                                               e.types, e.allowedOperations),
             return |-> "custom"]
       ELSE [result |-> FirstOperation(e.allowedOperations), return |-> "first"]
  ELSE [result |-> "cancel", return |-> "cancel"]

\* state.getDropOperation(e)
GetDropOperation(e) ==
  /\ ~opCall.called
  /\ LET out == DefaultGetDropOperation(props, e)
     IN opCall' = [called |-> TRUE, e |-> e, result |-> out.result, return |-> out.return]
  /\ UNCHANGED <<props, targetVars, opFirst, pure, tableVars, dragVars>>

InitOp ==
  /\ props \in {p \in HostProps : ~p.onDropEnter /\ ~p.onDropExit}
  /\ collection = [i \in 1..NumKeys |-> i]
  /\ target = Null
  /\ targetState = Null
  /\ targetRef = Null
  /\ fired = <<>>
  /\ call = NoCall
  /\ prev = NoPrev
  /\ ledger = NoLedger
  /\ opCall = NoOpCall
  /\ opFirst = NoOpCall
  /\ pure = NoPure
  /\ TableIdle
  /\ DragIdle

NextOp == \E e \in DropOperationEvents : GetDropOperation(e)

SpecOp == InitOp /\ [][NextOp]_vars

\* ======================================================= target claims
\* The kinds and targets of the notifications fired, in order.
FiredKinds == [i \in 1..Len(fired) |-> fired[i].type]
FiredTargets == [i \in 1..Len(fired) |-> fired[i].target]

\* b immediately follows a in the collection.
Adjacent(coll, a, b) ==
  \E i \in 1..(Len(coll) - 1) : coll[i] = a /\ coll[i + 1] = b

\* The last operation was a setTarget(Y) that found a non-null X stored, with
\* Y non-null and isDropTarget(Y) false.
SetTargetMoved ==
  /\ call.op = "setTarget"
  /\ Truthy(call.before)
  /\ Truthy(call.arg)
  /\ ~call.result

\* C1 as stated: setTarget(Y) over a stored non-null X, with Y non-null and
\* isDropTarget(Y) false, fires exactly one onDropExit carrying X and then
\* exactly one onDropEnter carrying Y, the stored target is never null in
\* between, and afterwards the stored target is Y.
C1_ExitThenEnterAlways ==
  SetTargetMoved =>
    /\ FiredKinds = <<"dropexit", "dropenter">>
    /\ FiredTargets = <<call.before, call.arg>>
    /\ \A i \in 1..Len(fired) : Truthy(fired[i].stored)
    /\ targetRef = call.arg
    /\ targetState = call.arg

\* C1 amended: the same, for the callbacks the host supplied: one onDropExit
\* carrying X if onDropExit is supplied, then one onDropEnter carrying Y if
\* onDropEnter is supplied (an absent callback is not invoked), the stored
\* target still X while they run, and afterwards the stored target is Y.
C1_ExitThenEnterWhenSupplied ==
  SetTargetMoved =>
    /\ FiredKinds = (IF props.onDropExit THEN <<"dropexit">> ELSE <<>>)
                    \o (IF props.onDropEnter THEN <<"dropenter">> ELSE <<>>)
    /\ FiredTargets = (IF props.onDropExit THEN <<call.before>> ELSE <<>>)
                      \o (IF props.onDropEnter THEN <<call.arg>> ELSE <<>>)
    /\ \A i \in 1..Len(fired) : fired[i].stored = call.before
    /\ targetRef = call.arg
    /\ targetState = call.arg

\* A target-to-target move with both callbacks supplied and both fired.
C1_Witness ==
  /\ SetTargetMoved
  /\ props.onDropExit /\ props.onDropEnter
  /\ call.before.type = "item" /\ call.arg.type = "item"
  /\ Len(fired) = 2

\* C2: a setTarget(newTarget) call for which isDropTarget(newTarget) holds of
\* the stored target invokes no callback and leaves state.target, the useState
\* cell and targetRef.current exactly as they were.
C2_NoOpWhenIsDropTarget ==
  [][(/\ call'.op = "setTarget"
      /\ IsDropTargetOf(collection, targetRef, call'.arg))
     => (/\ fired' = <<>>
         /\ target' = target
         /\ targetState' = targetState
         /\ targetRef' = targetRef)]_vars

\* A suppressed setTarget whose argument is the other representation of the
\* stored boundary.
C2_Witness ==
  /\ call.op = "setTarget"
  /\ call.result
  /\ call.before.type = "item"
  /\ call.arg # call.before
  /\ targetRef = call.before

\* Two setTarget calls in a row, with {A, after} and {B, before} in either
\* order, where B immediately follows A in the collection.
C3_Case ==
  /\ prev.op = "setTarget"
  /\ call.op = "setTarget"
  /\ \E a \in Keys, b \in Keys :
       /\ Adjacent(collection, a, b)
       /\ \/ prev.arg = Item(a, "after") /\ call.arg = Item(b, "before")
          \/ prev.arg = Item(b, "before") /\ call.arg = Item(a, "after")

\* C3 as stated: the second call fires nothing and the stored target stays
\* the first call's target.
C3_StaysFirstCallsTarget ==
  C3_Case => (fired = <<>> /\ targetRef = prev.arg)

\* C3 amended: the second call fires nothing and leaves the stored target as
\* the first call left it: the first call's target, or, when the first call
\* was itself suppressed, the other representation that was already stored.
C3_SecondCallSilent ==
  C3_Case =>
    /\ fired = <<>>
    /\ call.result
    /\ targetRef = call.before
    /\ targetRef \in {prev.arg, call.arg}

\* The first call stored its target and the second was suppressed.
C3_Witness ==
  /\ C3_Case
  /\ targetRef = prev.arg
  /\ call.arg # targetRef

\* The two item targets name one boundary between adjacent items.
SameBoundary(coll, s, c) ==
  \E a \in Keys, b \in Keys :
    /\ Adjacent(coll, a, b)
    /\ \/ s = Item(a, "after") /\ c = Item(b, "before")
       \/ s = Item(b, "before") /\ c = Item(a, "after")

\* C4: isDropTarget(candidate) is true exactly when the candidate equals the
\* stored target, or both are before/after item targets with different keys
\* and positions that name the same boundary; so it is false when exactly one
\* of them is null, when either position is 'on' and the keys differ, and
\* when the boundary has no item on the other side.
C4_IsDropTargetExactly ==
  call.op = "isDropTarget" =>
    LET s == targetRef
        c == call.arg
    IN /\ call.result <=>
            \/ IsEqualDropTarget(c, s)
            \/ /\ c.type = "item" /\ s.type = "item"
               /\ c.key # s.key
               /\ c.dropPosition # s.dropPosition
               /\ c.dropPosition # "on" /\ s.dropPosition # "on"
               /\ SameBoundary(collection, s, c)
       /\ (Truthy(c) # Truthy(s)) => ~call.result
       /\ (/\ c.type = "item" /\ s.type = "item" /\ c.key # s.key
           /\ (c.dropPosition = "on" \/ s.dropPosition = "on")) => ~call.result
       /\ (/\ c.type = "item" /\ s.type = "item" /\ c # s
           /\ Len(collection) > 0
           /\ \/ c = Item(collection[1], "before")
              \/ c = Item(collection[Len(collection)], "after")) => ~call.result

\* isDropTarget answered true for the other representation of the stored
\* boundary.
C4_Witness ==
  /\ call.op = "isDropTarget"
  /\ call.result
  /\ call.arg # targetRef
  /\ targetRef.type = "item"

\* ================================================ drop operation claims
\* The type gate of the resolution order: 'all', or the drag carries one of
\* the accepted type tags.
TypeGatePasses ==
  \/ props.acceptedDragTypes.all
  \/ props.acceptedDragTypes.types \cap opCall.e.types # {}

BeforeOrAfterItem ==
  /\ opCall.e.target.type = "item"
  /\ opCall.e.target.dropPosition \in {"before", "after"}

\* The four validity predicates of the resolution order.
ValidInsert == props.onInsert /\ BeforeOrAfterItem /\ ~opCall.e.isInternal
ValidReorder == props.onReorder /\ BeforeOrAfterItem /\ opCall.e.isInternal
ValidRootDrop ==
  props.onRootDrop /\ opCall.e.target.type = "root" /\ ~opCall.e.isInternal
ValidItemDrop ==
  /\ props.onItemDrop
  /\ opCall.e.target.type = "item"
  /\ opCall.e.target.dropPosition = "on"
  /\ ~(opCall.e.isInternal /\ opCall.e.target.key \in opCall.e.draggingKeys)
  /\ \/ props.shouldAcceptItemDrop = "none"
     \/ ShouldAcceptItemDrop(props.shouldAcceptItemDrop, opCall.e.target, opCall.e.types)
AnyValid == ValidInsert \/ ValidReorder \/ ValidRootDrop \/ ValidItemDrop

\* The first entry of allowedOperations; an empty list has none.
FirstEntry ==
  IF opCall.e.allowedOperations = <<>>
  THEN "undefined"
  ELSE Head(opCall.e.allowedOperations)

\* C5: with a restricted acceptedDragTypes none of whose entries the drag
\* carries, getDropOperation returns 'cancel' whatever the target, the drag
\* and the rest of the host configuration, and the host's getDropOperation
\* callback is not consulted.
C5_TypeGateCancels ==
  (/\ opCall.called
   /\ ~props.acceptedDragTypes.all
   /\ props.acceptedDragTypes.types \cap opCall.e.types = {})
  => (opCall.result = "cancel" /\ opCall.return # "custom")

\* accepted {'text/plain'}, drag {'text/html'}, with onDrop and a custom
\* getDropOperation that never cancels.
C5_Witness ==
  /\ opCall.called
  /\ props.acceptedDragTypes = AcceptOnly({"text/plain"})
  /\ opCall.e.types = {"text/html"}
  /\ props.onDrop
  /\ props.getDropOperation = "alwaysLink"
  /\ opCall.result = "cancel"

\* An internal drag over the root.
InternalRootDrop ==
  /\ opCall.called
  /\ opCall.e.target = Root
  /\ opCall.e.isInternal

InternalSelfDrop ==
  /\ opCall.called
  /\ opCall.e.target.type = "item"
  /\ opCall.e.target.dropPosition = "on"
  /\ opCall.e.isInternal
  /\ opCall.e.target.key \in opCall.e.draggingKeys

C8_OnDropOpensPermissionGate ==
  (opCall.called /\ TypeGatePasses) =>
    /\ props.onDrop => opCall.return \in {"custom", "first"}
    /\ opCall.return = "cancel" => (~props.onDrop /\ ~AnyValid)

\* onDrop alone carried a drop that no validity predicate allows (an internal
\* drag over the root) to operation selection.
C8_Witness ==
  /\ InternalRootDrop
  /\ TypeGatePasses
  /\ props.onDrop
  /\ ~AnyValid
  /\ opCall.return = "first"
  /\ opCall.result = "move"

\* C9: once the type gate and the permission gate have passed, the result is
\* what the host's getDropOperation(target, types, allowedOperations) returns
\* when that callback is supplied, 'cancel' included, and otherwise the first
\* entry of allowedOperations.
C9_OperationSelection ==
  (opCall.called /\ TypeGatePasses /\ (props.onDrop \/ AnyValid)) =>
    opCall.result =
      IF props.getDropOperation # "none"
      THEN CustomGetDropOperation(props.getDropOperation, opCall.e.target,
                                  opCall.e.types, opCall.e.allowedOperations)
      ELSE FirstEntry

\* The host's callback answered 'cancel' after both gates passed, and that is
\* what was returned although the drag allows 'move'.
C9_Witness ==
  /\ opCall.called
  /\ TypeGatePasses
  /\ AnyValid
  /\ props.getDropOperation = "copyOnRootElseCancel"
  /\ opCall.e.target.type = "item"
  /\ opCall.e.allowedOperations = <<"move", "copy">>
  /\ opCall.result = "cancel"
  /\ opCall.return = "custom"

\* onReorder is the host's only drop handler and there is no custom
\* getDropOperation.
OnlyOnReorder ==
  /\ props.onReorder
  /\ ~props.onInsert /\ ~props.onRootDrop /\ ~props.onItemDrop /\ ~props.onDrop
  /\ props.getDropOperation = "none"

\* C10: with onReorder as the only handler, no custom getDropOperation and a
\* passing type gate, the result is the first entry of allowedOperations if
\* the target is a before/after item target and the drag is internal, and
\* 'cancel' for every other target and for every external drag.
C10_ReorderOnly ==
  (opCall.called /\ OnlyOnReorder /\ TypeGatePasses) =>
    IF BeforeOrAfterItem /\ opCall.e.isInternal
    THEN opCall.result = FirstEntry /\ opCall.result # "cancel"
    ELSE opCall.result = "cancel"

\* The scenario of the specification: an internal drag of one item to before
\* another, allowedOperations ['move', 'copy'], resolved to 'move'.
C10_Witness ==
  /\ opCall.called
  /\ OnlyOnReorder
  /\ opCall.e.target.type = "item"
  /\ opCall.e.target.dropPosition = "before"
  /\ opCall.e.isInternal
  /\ opCall.e.draggingKeys # {}
  /\ opCall.e.target.key \notin opCall.e.draggingKeys
  /\ opCall.e.allowedOperations = <<"move", "copy">>
  /\ opCall.result = "move"

\* The result came from operation selection, not from the final 'cancel'.
ReachedSelection == opCall.return \in {"custom", "first"}

\* onInsert is the host's only drop handler.
OnlyOnInsert ==
  /\ props.onInsert
  /\ ~props.onReorder /\ ~props.onRootDrop /\ ~props.onItemDrop /\ ~props.onDrop

\* C11 as stated: with onInsert as the only handler and a passing type gate,
\* the result is not 'cancel' if and only if the target is a before/after
\* item target and the drag is not internal.
C11_InsertOnlyNeverCancelsValid ==
  (opCall.called /\ OnlyOnInsert /\ TypeGatePasses) =>
    (opCall.result # "cancel" <=> (BeforeOrAfterItem /\ ~opCall.e.isInternal))

\* C11 amended: with onInsert as the only handler and a passing type gate,
\* the resolution reaches operation selection if and only if the target is a
\* before/after item target and the drag is not internal; there the result is
\* the first entry of allowedOperations, or what a supplied custom
\* getDropOperation returns, which may be 'cancel'.  Every other target and
\* every internal drag is cancelled.
C11_InsertOnlyReachesSelection ==
  (opCall.called /\ OnlyOnInsert /\ TypeGatePasses) =>
    IF BeforeOrAfterItem /\ ~opCall.e.isInternal
    THEN /\ ReachedSelection
         /\ props.getDropOperation = "none" =>
              (opCall.result = FirstEntry /\ opCall.result # "cancel")
         /\ props.getDropOperation # "none" =>
              opCall.result = CustomGetDropOperation(props.getDropOperation,
                                opCall.e.target, opCall.e.types,
                                opCall.e.allowedOperations)
    ELSE ~ReachedSelection /\ opCall.result = "cancel"

\* An internal drag onto a before position cancelled although onInsert is
\* supplied and the drag allows 'move'.
C11_Witness ==
  /\ opCall.called
  /\ OnlyOnInsert
  /\ TypeGatePasses
  /\ BeforeOrAfterItem
  /\ opCall.e.isInternal
  /\ opCall.e.allowedOperations = <<"move", "copy">>
  /\ opCall.result = "cancel"

\* onItemDrop is the host's only drop handler.
OnlyOnItemDrop ==
  /\ props.onItemDrop
  /\ ~props.onInsert /\ ~props.onReorder /\ ~props.onRootDrop /\ ~props.onDrop

\* C12: with onItemDrop as the only handler and a passing type gate, an 'on'
\* item target passes the permission gate if and only if it is not an
\* internal self drop and either no shouldAcceptItemDrop was supplied or it
\* returns true for the target; when it returns false the result is 'cancel'.
C12_ItemDropOnly ==
  (/\ opCall.called /\ OnlyOnItemDrop /\ TypeGatePasses
   /\ opCall.e.target.type = "item" /\ opCall.e.target.dropPosition = "on") =>
    LET self == opCall.e.isInternal /\ opCall.e.target.key \in opCall.e.draggingKeys
        vetoed == /\ props.shouldAcceptItemDrop # "none"
                  /\ ~ShouldAcceptItemDrop(props.shouldAcceptItemDrop,
                                           opCall.e.target, opCall.e.types)
    IN /\ ReachedSelection <=> (~self /\ ~vetoed)
       /\ vetoed => opCall.result = "cancel"

\* A drop on an item that is not being dragged, refused only because the
\* host's shouldAcceptItemDrop returned false.
C12_Witness ==
  /\ opCall.called
  /\ OnlyOnItemDrop
  /\ TypeGatePasses
  /\ opCall.e.target.type = "item"
  /\ opCall.e.target.dropPosition = "on"
  /\ ~opCall.e.isInternal
  /\ props.shouldAcceptItemDrop = "firstKeyOnly"
  /\ opCall.e.target.key # FirstKey
  /\ props.getDropOperation = "none"
  /\ opCall.e.allowedOperations = <<"move", "copy">>
  /\ opCall.result = "cancel"

\* ================================================ further target claims
\* The last operation was setTarget(null).
SetTargetNull == call.op = "setTarget" /\ call.arg = Null

\* C13 as stated: setTarget(null) over a stored target X fires exactly one
\* onDropExit carrying X and no onDropEnter and leaves the stored target
\* null; setTarget(null) over a null stored target fires nothing and changes
\* nothing.
C13_CancelAlwaysExits ==
  SetTargetNull =>
    /\ targetRef = Null
    /\ targetState = Null
    /\ IF Truthy(call.before)
       THEN FiredKinds = <<"dropexit">> /\ FiredTargets = <<call.before>>
       ELSE fired = <<>>

\* C13 amended: the same, with the one onDropExit carrying X fired when the
\* host supplied onDropExit and nothing fired when it did not.
C13_CancelExitsWhenSupplied ==
  SetTargetNull =>
    /\ targetRef = Null
    /\ targetState = Null
    /\ IF Truthy(call.before) /\ props.onDropExit
       THEN FiredKinds = <<"dropexit">> /\ FiredTargets = <<call.before>>
       ELSE fired = <<>>

\* A stored item target cleared by setTarget(null), with both callbacks
\* supplied and only the exit fired.
C13_Witness ==
  /\ SetTargetNull
  /\ call.before.type = "item"
  /\ props.onDropExit /\ props.onDropEnter
  /\ Len(fired) = 1

\* t is {K, before} for the first item K or {K, after} for the last item K.
BoundaryTarget(coll, t) ==
  /\ t.type = "item"
  /\ Len(coll) > 0
  /\ \/ t.dropPosition = "before" /\ t.key = coll[1]
     \/ t.dropPosition = "after" /\ t.key = coll[Len(coll)]

\* C16: {K, before} for the first item and {K, after} for the last item have
\* no opposite target, so when such a target is stored isDropTarget answers
\* true only for a candidate with the same key and position.
C16_BoundaryHasNoOpposite ==
  (call.op = "isDropTarget" /\ BoundaryTarget(collection, targetRef)) =>
    /\ GetOppositeTarget(collection, targetRef) = Null
    /\ call.result <=> /\ call.arg.type = "item"
                       /\ call.arg.key = targetRef.key
                       /\ call.arg.dropPosition = targetRef.dropPosition

\* With the first boundary stored, the outer side of the last item was asked
\* for and refused.
C16_Witness ==
  /\ call.op = "isDropTarget"
  /\ BoundaryTarget(collection, targetRef)
  /\ BoundaryTarget(collection, call.arg)
  /\ call.arg.key # targetRef.key
  /\ call.arg.dropPosition # targetRef.dropPosition
  /\ ~call.result

\* The target stored when the last call was made names an item that is no
\* longer in the collection.
StaleStored ==
  /\ call.before.type = "item"
  /\ IndexOf(collection, call.before.key) = 0

\* C17: when the stored target's key has been removed from the collection,
\* isDropTarget is false for every item candidate, the same key and position
\* included, so the stale target never suppresses a setTarget call.
C17_StaleTargetNeverMatches ==
  (/\ call.op \in {"isDropTarget", "setTarget"}
   /\ StaleStored
   /\ call.arg.type = "item") => ~call.result

\* C18: the useState cell and targetRef.current always hold the same value: a
\* setTarget call that is not suppressed leaves its argument in both, a
\* setTarget call that follows another one is compared with what the first
\* one left, and after a render state.target holds that value too.
C18_NoDrift ==
  /\ targetState = targetRef
  /\ (call.op = "setTarget" /\ ~call.result) =>
       (targetRef = call.arg /\ targetState = call.arg)
  /\ (call.op = "setTarget" /\ prev.op = "setTarget") =>
       IsDropTargetOf(collection, call.before, prev.arg)
  /\ call.op \in {"render", "removeItem"} => target = targetRef

\* Two setTarget calls with no render in between: the second was compared
\* with the first call's target, which state.target does not show yet, and
\* was committed.
C18_Witness ==
  /\ call.op = "setTarget"
  /\ prev.op = "setTarget"
  /\ call.before = prev.arg
  /\ Truthy(call.before)
  /\ target # call.before
  /\ ~call.result
  /\ targetRef = call.arg

\* ==================================================== helper functions
\* A behaviour of SpecPure applies one helper function, once, to the full
\* collection or to what is left of it after items were removed.
\* isEqualDropTarget(a, b) applied to two drop targets.
ApplyIsEqualDropTarget(a, b) ==
  /\ pure = NoPure
  /\ pure' = [fn |-> "isEqualDropTarget", a |-> a, b |-> b,
              result |-> IsEqualDropTarget(a, b)]
  /\ UNCHANGED <<props, targetVars, opCall, opFirst, tableVars, dragVars>>

\* getOppositeTarget(t) applied to an item target of the current collection,
\* and applied again to its result when there is one.
ApplyGetOppositeTarget(t) ==
  /\ pure = NoPure
  /\ IndexOf(collection, t.key) # 0
  /\ LET opposite == GetOppositeTarget(collection, t)
     IN pure' = [fn |-> "getOppositeTarget", a |-> t, coll |-> collection,
                 opposite |-> opposite,
                 back |-> IF Truthy(opposite)
                          THEN GetOppositeTarget(collection, opposite)
                          ELSE opposite]
  /\ UNCHANGED <<props, targetVars, opCall, opFirst, tableVars, dragVars>>

\* isDropTarget applied to three targets of the current collection, each in
\* turn as the stored target and as the candidate.
ApplyIsDropTarget(a, b, c) ==
  /\ pure = NoPure
  /\ pure' = [fn |-> "isDropTarget", a |-> a, b |-> b, c |-> c,
              coll |-> collection,
              aa |-> IsDropTargetOf(collection, a, a),
              ab |-> IsDropTargetOf(collection, a, b),
              ba |-> IsDropTargetOf(collection, b, a),
              bc |-> IsDropTargetOf(collection, b, c),
              ac |-> IsDropTargetOf(collection, a, c),
              class |-> {t \in Targets : IsDropTargetOf(collection, a, t)}]
  /\ UNCHANGED <<props, targetVars, opCall, opFirst, tableVars, dragVars>>

NextPure ==
  \/ \E a \in Targets, b \in Targets : ApplyIsEqualDropTarget(a, b)
  \/ \E k \in Keys : RemoveItem(k)
  \/ \E t \in ItemTargets(Keys) : ApplyGetOppositeTarget(t)
  \/ \E a \in Targets, b \in Targets, c \in Targets : ApplyIsDropTarget(a, b, c)

SpecPure == Init /\ [][NextPure]_vars

\* C14: isEqualDropTarget(a, b) for a, b among null, root and the item
\* targets: null equals only null, root equals only root, two item targets
\* are equal exactly when key and dropPosition agree, every mixed pair is
\* unequal; so isEqualDropTarget(t, t) is true for every t.
C14_EqualityContract ==
  pure.fn = "isEqualDropTarget" =>
    LET a == pure.a
        b == pure.b
    IN /\ a = Null => (pure.result <=> b = Null)
       /\ a = Root => (pure.result <=> b = Root)
       /\ (a.type = "item" /\ b.type = "item") =>
            (pure.result <=> (a.key = b.key /\ a.dropPosition = b.dropPosition))
       /\ a.type # b.type => ~pure.result
       /\ a = b => pure.result

\* Two item targets with the same key and different positions were compared
\* and found unequal.
C14_Witness ==
  /\ pure.fn = "isEqualDropTarget"
  /\ pure.a.type = "item" /\ pure.b.type = "item"
  /\ pure.a.key = pure.b.key
  /\ pure.a.dropPosition # pure.b.dropPosition
  /\ ~pure.result

\* C15: for {K, before} with J immediately before K the opposite is
\* {J, after}; for {K, after} with L immediately after K it is {L, before};
\* and the opposite of an opposite equals the original target.
C15_OppositeInvolution ==
  pure.fn = "getOppositeTarget" =>
    /\ \A j \in Keys :
         (pure.a.dropPosition = "before" /\ Adjacent(pure.coll, j, pure.a.key))
           => pure.opposite = Item(j, "after")
    /\ \A l \in Keys :
         (pure.a.dropPosition = "after" /\ Adjacent(pure.coll, pure.a.key, l))
           => pure.opposite = Item(l, "before")
    /\ Truthy(pure.opposite) => IsEqualDropTarget(pure.back, pure.a)

\* An interior boundary resolved to its other name and back.
C15_Witness ==
  /\ pure.fn = "getOppositeTarget"
  /\ pure.a.dropPosition = "before"
  /\ pure.opposite.type = "item"
  /\ pure.opposite.dropPosition = "after"
  /\ pure.back = pure.a

\* C28: over an ordered collection the relation "isDropTarget(candidate) with
\* s stored" on null, root and the item targets is an equivalence: reflexive,
\* symmetric (stored and candidate may be swapped) and transitive, and every
\* class holds at most two representations.
C28_IsDropTargetEquivalence ==
  pure.fn = "isDropTarget" =>
    /\ pure.aa
    /\ pure.ab <=> pure.ba
    /\ (pure.ab /\ pure.bc) => pure.ac
    /\ pure.a \in pure.class
    /\ Cardinality(pure.class) <= 2

\* The two names of an interior boundary found equivalent in both directions,
\* and a third target equivalent to neither.
C28_Witness ==
  /\ pure.fn = "isDropTarget"
  /\ pure.a.type = "item" /\ pure.b.type = "item"
  /\ pure.a # pure.b
  /\ pure.ab /\ pure.ba
  /\ pure.class = {pure.a, pure.b}
  /\ pure.c = Root
  /\ ~pure.bc /\ ~pure.ac

\* ============================================ a drag over the collection
\* Host configurations of a session: the catch-all onDrop, or onReorder
\* alone; both with the two notification callbacks.
SessionProps ==
  {[NoHandlers(TRUE, TRUE) EXCEPT !.onDrop = TRUE],
   [NoHandlers(TRUE, TRUE) EXCEPT !.onReorder = TRUE]}

\* Drag events of a session: an external drag over the root, and an internal
\* drag of the last item to before the first.
SessionEvents ==
  {[target |-> Root, types |-> {"text/plain"},
    allowedOperations |-> <<"move", "copy">>,
    isInternal |-> FALSE, draggingKeys |-> {}],
   [target |-> Item(FirstKey, "before"), types |-> {"text/plain"},
    allowedOperations |-> <<"move", "copy">>,
    isInternal |-> TRUE, draggingKeys |-> {NumOpKeys}]}

\* Mutant of StateGetDropOperation: a drop is only allowed on the target that
\* is currently stored.
StateGetDropOperationOnStored(p, ref, e) ==
  IF IsEqualDropTarget(e.target, ref)
  THEN DefaultGetDropOperation(p, e)
  ELSE [result |-> "cancel", return |-> "cancel"]

\* state.getDropOperation(e) as a method of the object the hook returns:
\* targetRef.current = ref is in its scope and is not read.
StateGetDropOperation(p, ref, e) == DefaultGetDropOperation(p, e)

\* state.getDropOperation(e), called at any time during a drag.
GetDropOperationInSession(e) ==
  /\ LET out == StateGetDropOperation(props, targetRef, e)
         this == [called |-> TRUE, e |-> e, result |-> out.result,
                  return |-> out.return]
     IN /\ opCall' = this
        /\ opFirst' = IF opFirst.called
                      THEN opFirst
                      ELSE [called |-> TRUE, e |-> e, result |-> out.result,
                            stored |-> targetRef]
  /\ call' = [op |-> "getDropOperation", arg |-> e.target, before |-> targetRef,
              result |-> FALSE]
  /\ prev' = Summary(call)
  /\ fired' = <<>>
  /\ UNCHANGED <<ledger, props, collection, target, targetState, targetRef, pure,
               tableVars, dragVars>>

InitSession ==
  /\ props \in SessionProps
  /\ collection = [i \in 1..NumKeys |-> i]
  /\ target = Null
  /\ targetState = Null
  /\ targetRef = Null
  /\ fired = <<>>
  /\ call = NoCall
  /\ prev = NoPrev
  /\ ledger = NoLedger
  /\ opCall = NoOpCall
  /\ opFirst = NoOpCall
  /\ pure = NoPure
  /\ TableIdle
  /\ DragIdle

NextSession ==
  \/ \E t \in Targets : SetTarget(t)
  \/ \E t \in Targets : IsDropTarget(t)
  \/ \E e \in SessionEvents : GetDropOperationInSession(e)

SpecSession == InitSession /\ [][NextSession]_vars

\* C19: the stored target is null at first, and only setTarget changes it:
\* an isDropTarget or getDropOperation call leaves state.target, the useState
\* cell and targetRef.current as they were and invokes neither onDropEnter
\* nor onDropExit.
C19_OnlySetTargetWrites ==
  /\ (target = Null /\ targetState = Null /\ targetRef = Null)
  /\ [][/\ (targetRef' # targetRef \/ targetState' # targetState)
             => call'.op = "setTarget"
        /\ call'.op \in {"isDropTarget", "getDropOperation"}
             => /\ target' = target
                /\ targetState' = targetState
                /\ targetRef' = targetRef
                /\ fired' = <<>>]_vars

\* getDropOperation allowed a drop while an item target was stored, and the
\* stored target is still there.
C19_Witness ==
  /\ call.op = "getDropOperation"
  /\ opCall.result = "move"
  /\ targetRef.type = "item"
  /\ targetState = targetRef
  /\ fired = <<>>

NoDropHandler ==
  /\ ~props.onDrop /\ ~props.onInsert /\ ~props.onReorder
  /\ ~props.onRootDrop /\ ~props.onItemDrop

\* C24: without any of onDrop, onInsert, onReorder, onRootDrop and onItemDrop
\* getDropOperation returns 'cancel' for every input, also when
\* acceptedDragTypes is 'all' and a custom getDropOperation is supplied: the
\* callback is not consulted.
C24_NoHandlerAlwaysCancels ==
  (opCall.called /\ NoDropHandler) =>
    (opCall.result = "cancel" /\ opCall.return = "cancel")

\* An external drag over the root with acceptedDragTypes 'all' and a custom
\* getDropOperation that never cancels, cancelled for want of a handler.
C24_Witness ==
  /\ opCall.called
  /\ NoDropHandler
  /\ props.acceptedDragTypes = AcceptAll
  /\ props.getDropOperation = "alwaysLink"
  /\ opCall.e.target = Root
  /\ ~opCall.e.isInternal
  /\ opCall.e.allowedOperations = <<"move", "copy">>
  /\ opCall.result = "cancel"

\* onRootDrop is the host's only drop handler.
OnlyOnRootDrop ==
  /\ props.onRootDrop
  /\ ~props.onInsert /\ ~props.onReorder /\ ~props.onItemDrop /\ ~props.onDrop

\* C25: with onRootDrop as the only handler and a passing type gate, the
\* resolution reaches operation selection if and only if the target is root
\* and the drag is not internal; every item target, before, after or on,
\* yields 'cancel'.
C25_RootDropOnly ==
  (opCall.called /\ OnlyOnRootDrop /\ TypeGatePasses) =>
    /\ ReachedSelection <=> (opCall.e.target = Root /\ ~opCall.e.isInternal)
    /\ opCall.e.target.type = "item" =>
         (opCall.result = "cancel" /\ opCall.return = "cancel")

\* An external drag onto an item refused, with onRootDrop alone and a custom
\* getDropOperation that never cancels.
C25_Witness ==
  /\ opCall.called
  /\ OnlyOnRootDrop
  /\ TypeGatePasses
  /\ opCall.e.target.type = "item"
  /\ opCall.e.target.dropPosition = "on"
  /\ ~opCall.e.isInternal
  /\ props.getDropOperation = "alwaysLink"
  /\ opCall.result = "cancel"

\* The elements of a sequence of operations.
Elements(ops) == {ops[i] : i \in 1..Len(ops)}

\* C29: without a custom getDropOperation the value returned is 'cancel' or an
\* element of the allowedOperations it was given, for every input, an empty
\* allowedOperations included.
C29_CancelOrAllowed ==
  (opCall.called /\ props.getDropOperation = "none") =>
    (\/ opCall.result = "cancel"
     \/ opCall.result \in Elements(opCall.e.allowedOperations))

\* ============================================= notification claims
\* The last operation was a setTarget(X) with X non-null that found no target
\* stored.
SetTargetFromNull ==
  /\ call.op = "setTarget"
  /\ call.before = Null
  /\ Truthy(call.arg)

\* onDropExit is fired only over a non-null stored target and onDropEnter
\* only for a non-null new target.
ExitNeedsStoredEnterNeedsNew ==
  call.op = "setTarget" =>
    /\ (\E i \in 1..Len(fired) : fired[i].type = "dropexit") => Truthy(call.before)
    /\ (\E i \in 1..Len(fired) : fired[i].type = "dropenter") => Truthy(call.arg)

\* C23 as stated: setTarget(X) with X non-null from the null state fires
\* exactly one onDropEnter carrying X and no onDropExit; onDropExit is fired
\* only when the stored target before the call is non-null and onDropEnter
\* only when the new target is non-null.
C23_FirstEnterAlways ==
  /\ SetTargetFromNull =>
       (FiredKinds = <<"dropenter">> /\ FiredTargets = <<call.arg>>)
  /\ ExitNeedsStoredEnterNeedsNew

\* C23 amended: setTarget(X) with X non-null from the null state fires exactly
\* one onDropEnter carrying X when the host supplied onDropEnter, nothing when
\* it did not, and never an onDropExit; onDropExit is fired only when the
\* stored target before the call is non-null and onDropEnter only when the
\* new target is non-null.
C23_FirstEnterWhenSupplied ==
  /\ SetTargetFromNull =>
       IF props.onDropEnter
       THEN FiredKinds = <<"dropenter">> /\ FiredTargets = <<call.arg>>
       ELSE fired = <<>>
  /\ ExitNeedsStoredEnterNeedsNew

\* The first call of a session, setTarget of an item target, with both
\* callbacks supplied: one enter and no exit.
C23_Witness ==
  /\ SetTargetFromNull
  /\ prev.op = "none"
  /\ call.arg.type = "item"
  /\ props.onDropEnter /\ props.onDropExit
  /\ Len(fired) = 1
  /\ targetRef = call.arg

\* C26: with both notification callbacks supplied, after any sequence of
\* setTarget calls from the initial state the notifications are balanced:
\* every onDropExit carries the target of the most recent preceding
\* onDropEnter, no two onDropEnter occur without an onDropExit between them,
\* and the number of enters minus the number of exits is 1 when the stored
\* target is non-null and 0 when it is null.
C26_BalancedNotifications ==
  (props.onDropEnter /\ props.onDropExit) =>
    /\ ledger.balanced
    /\ Truthy(ledger.entered) <=> Truthy(targetRef)

\* A move from one item target to another and then a clear: exit, enter and
\* exit again, each exit carrying the target entered before it.
C26_Witness ==
  /\ props.onDropEnter /\ props.onDropExit
  /\ SetTargetNull
  /\ prev.op = "setTarget"
  /\ call.before = prev.arg
  /\ call.before.type = "item"
  /\ FiredKinds = <<"dropexit">>
  /\ FiredTargets = <<prev.arg>>
  /\ ledger = NoLedger

\* C27: right after any setTarget(t) call, committed or suppressed,
\* isDropTarget(t) is true, for t null, root or an item target; so a
\* setTarget(t) repeated at once fires no notification and changes no state.
C27_SetTargetIdempotent ==
  /\ [](call.op = "setTarget" => IsDropTargetOf(collection, targetRef, call.arg))
  /\ [][(/\ call.op = "setTarget"
         /\ call'.op = "setTarget"
         /\ call'.arg = call.arg)
        => (/\ call'.result
            /\ fired' = <<>>
            /\ ledger' = ledger
            /\ target' = target
            /\ targetState' = targetState
            /\ targetRef' = targetRef)]_vars

\* setTarget of the other name of the stored boundary, suppressed, and then
\* repeated: the stored target is still the first name and nothing fired.
C27_Witness ==
  /\ call.op = "setTarget"
  /\ prev.op = "setTarget"
  /\ prev.arg = call.arg
  /\ call.arg.type = "item"
  /\ targetRef.type = "item"
  /\ targetRef # call.arg
  /\ call.result
  /\ fired = <<>>

\* ====================================================== draggable items
\* Key events delivered to the item's element in the capture phase.
KeyEvents == [type : {"keydown", "keyup"}, key : {"Enter", "Tab"}, altKey : BOOLEAN]

\* The drop operation a finished drag reports.
DropOperations == {"cancel", "move", "copy", "link"}

\* state.getKeysForDrag(key): the selection when the item is part of it,
\* otherwise the item alone.
GetKeysForDrag(it) == IF it.key \in it.selection THEN it.selection ELSE {it.key}

\* isInternalDropOperation(): the module-scope internal-drop flag.
IsInternalDropOperation(g) == g.isInternal

\* setDraggingKeys(keys)
SetDraggingKeys(g, keys) == [g EXCEPT !.draggingKeys = keys]

\* clearGlobalDnDState()
ClearGlobalDnDState == NoGlobalDnD

\* useDrag's own capture handlers: releasing Enter starts a keyboard drag.
UseDragStartsDrag(e) == e.type = "keyup" /\ e.key = "Enter"

\* The dragProps useDrag returns, by name: the native drag handlers, and,
\* unless the item has a drag button, the handlers that start an accessible
\* drag from the item itself.
UseDragProps(it) ==
  {"draggable", "onDragStart", "onDrag", "onDragEnd"}
    \cup (IF it.hasDragButton
          THEN {}
          ELSE {"onPointerDown", "onKeyDownCapture", "onKeyUpCapture", "onClick"})

\* The dragButtonProps useDrag returns, by name.
UseDragButtonProps(it) == IF it.hasDragButton THEN {"onPress"} ELSE {}

\* isSelected: the item is dragged together with other selected items.
IsSelectedForDrag(it) ==
  Cardinality(GetKeysForDrag(it)) > 1 /\ it.key \in it.selection

\* The message the description is built from; none with a drag button.
Description(it) ==
  IF it.hasDragButton THEN Undefined
  ELSE [modality |-> it.modality, selected |-> IsSelectedForDrag(it),
        alt |-> it.hasAction /\ it.modality = "keyboard"]

\* The label of the drag button; none without a drag button.
DragButtonLabel(it) ==
  IF ~it.hasDragButton THEN Undefined
  ELSE IF IsSelectedForDrag(it) THEN "dragSelectedItems" ELSE "dragItem"

\* dragProps as the hook has assembled them before it returns: useDrag's
\* props, the description's aria-describedby when there is a description,
\* removed again for touch when the item has an action.
DragProps(it) ==
  LET described == IF Description(it) # Undefined
                   THEN UseDragProps(it) \cup {"aria-describedby"}
                   ELSE UseDragProps(it)
  IN IF ~it.hasDragButton /\ it.hasAction /\ it.modality = "touch"
     THEN described \ {"aria-describedby"}
     ELSE described

\* Mutant of ReturnedDragProps: the assembled dragProps are returned for a
\* disabled item too.
ReturnedDragPropsIgnoresDisabled(it) == DragProps(it)

\* The dragProps the hook returns: isDisabled ? {} : dragProps.
ReturnedDragProps(it) == IF it.isDisabled THEN {} ELSE DragProps(it)

\* The dragButtonProps the hook returns: useDrag's, then isDisabled and
\* aria-label.
ReturnedDragButtonProps(it) ==
  [handlers |-> UseDragButtonProps(it),
   isDisabled |-> it.isDisabled,
   ariaLabel |-> DragButtonLabel(it)]

\* The dragProps handler a key event is delivered to.
KeyHandler(e) == IF e.type = "keydown" THEN "onKeyDownCapture" ELSE "onKeyUpCapture"

\* Mutant of KeyCaptureReaches: the wrappers installed for hasAction pass
\* every key event on.
KeyCaptureReachesAnyKey(it, e) ==
  IF KeyHandler(e) \notin ReturnedDragProps(it) THEN FALSE
  ELSE TRUE

\* Whether a key event delivered to the item's dragProps reaches useDrag's
\* onKeyDownCapture / onKeyUpCapture: a disabled item has no dragProps, an
\* item with a drag button has no key handlers in its dragProps, and with
\* hasAction the handlers are wrapped and called only if e.altKey.
KeyCaptureReaches(it, e) ==
  IF KeyHandler(e) \notin ReturnedDragProps(it) THEN FALSE
  ELSE IF it.hasAction THEN e.altKey
  ELSE TRUE

\* onDragStart(e), statement by statement: state.startDrag(props.key, e),
\* then setDraggingKeys(state.draggingKeys) publishes the keys now being
\* dragged to the module-scope state.  `calls` lists the two calls in order.
OnDragStartOutcome(it, ds, g) ==
  LET started == [draggingKeys |-> GetKeysForDrag(it)]
      published == SetDraggingKeys(g, started.draggingKeys)
  IN [dragState |-> started,
      globalDnD |-> published,
      calls |-> <<[fn |-> "startDrag", key |-> it.key],
                  [fn |-> "setDraggingKeys", keys |-> started.draggingKeys]>>]

OnDragStart ==
  LET out == OnDragStartOutcome(item, dragState, globalDnD)
  IN /\ dragState' = out.dragState
     /\ globalDnD' = out.globalDnD

\* A key event on the item's element while nothing is dragged.
KeyCapture(e) ==
  /\ dragState = NoDragState
  /\ LET reached == KeyCaptureReaches(item, e)
         started == reached /\ UseDragStartsDrag(e)
     IN /\ dragLog' = [op |-> "key", e |-> e, reached |-> reached,
                       started |-> started,
                       calls |-> IF started
                                 THEN OnDragStartOutcome(item, dragState, globalDnD).calls
                                 ELSE <<>>]
        /\ IF started
           THEN OnDragStart
           ELSE UNCHANGED <<dragState, globalDnD>>
  /\ UNCHANGED <<dropVars, tableVars, item>>

\* A pointer drag of the item starts through dragProps.onDragStart.
PointerDragStart ==
  /\ dragState = NoDragState
  /\ "onDragStart" \in ReturnedDragProps(item)
  /\ OnDragStart
  /\ dragLog' = [op |-> "dragStart", via |-> "dragProps",
                 calls |-> OnDragStartOutcome(item, dragState, globalDnD).calls]
  /\ UNCHANGED <<dropVars, tableVars, item>>

\* The drag button is pressed: a button that is not disabled calls the
\* onPress of its props, which starts an accessible drag.
DragButtonPress ==
  /\ dragState = NoDragState
  /\ "onPress" \in ReturnedDragButtonProps(item).handlers
  /\ ~ReturnedDragButtonProps(item).isDisabled
  /\ OnDragStart
  /\ dragLog' = [op |-> "dragStart", via |-> "dragButtonProps",
                 calls |-> OnDragStartOutcome(item, dragState, globalDnD).calls]
  /\ UNCHANGED <<dropVars, tableVars, item>>

\* The hook is called for the item and returns its props.
UseDraggableItem ==
  /\ dragLog.op # "render"
  /\ dragLog' = [op |-> "render",
                 dragProps |-> ReturnedDragProps(item),
                 dragButtonProps |-> ReturnedDragButtonProps(item)]
  /\ UNCHANGED <<dropVars, tableVars, item, dragState, globalDnD>>

\* While the item is dragged, the drop side records whether the collection
\* under the pointer is the one the drag came from.
SetDropCollection(internal) ==
  /\ dragState # NoDragState
  /\ globalDnD.isInternal # internal
  /\ globalDnD' = [globalDnD EXCEPT !.isInternal = internal]
  /\ dragLog' = [op |-> "dropCollection"]
  /\ UNCHANGED <<dropVars, tableVars, item, dragState>>

\* Mutant of OnDragEndIsInternal: the module-scope flag is passed on even for
\* a cancelled drop.
OnDragEndIsInternalAlwaysGlobal(dropOperation, g) == IsInternalDropOperation(g)

\* The isInternal that onDragEnd hands to state.endDrag.
OnDragEndIsInternal(dropOperation, g) ==
  IF dropOperation = "cancel" THEN FALSE ELSE IsInternalDropOperation(g)

\* Mutant of OnDragEndOutcome: the module-scope state is cleared first, so
\* the flag is gone when isInternal is computed and endDrag is called.
OnDragEndClearsFirst(dropOperation, ds, g) ==
  LET cleared == ClearGlobalDnDState
      isInternal == OnDragEndIsInternal(dropOperation, cleared)
  IN [dragState |-> NoDragState,
      globalDnD |-> cleared,
      calls |-> <<[fn |-> "clearGlobalDnDState"],
                  [fn |-> "endDrag", keys |-> ds.draggingKeys,
                   isInternal |-> isInternal, global |-> cleared]>>]

\* onDragEnd(e), statement by statement: isInternal is computed, then
\* state.endDrag({...e, keys: state.draggingKeys, isInternal}) is called,
\* then clearGlobalDnDState().  `calls` lists the calls in order; `global`
\* is the module-scope state as it is when endDrag is called.
OnDragEndOutcome(dropOperation, ds, g) ==
  LET isInternal == OnDragEndIsInternal(dropOperation, g)
  IN [dragState |-> NoDragState,
      globalDnD |-> ClearGlobalDnDState,
      calls |-> <<[fn |-> "endDrag", keys |-> ds.draggingKeys,
                   isInternal |-> isInternal, global |-> g],
                  [fn |-> "clearGlobalDnDState"]>>]

\* The endDrag call among the calls of a drag end.
EndDragCall(calls) == CHOOSE c \in {calls[i] : i \in 1..Len(calls)} : c.fn = "endDrag"

OnDragEnd(dropOperation) ==
  /\ dragState # NoDragState
  /\ LET out == OnDragEndOutcome(dropOperation, dragState, globalDnD)
         endDrag == EndDragCall(out.calls)
     IN /\ dragLog' = [op |-> "dragEnd", dropOperation |-> dropOperation,
                       keys |-> endDrag.keys,
                       isInternal |-> endDrag.isInternal,
                       draggingKeys |-> dragState.draggingKeys,
                       global |-> globalDnD,
                       calls |-> out.calls]
        /\ dragState' = out.dragState
        /\ globalDnD' = out.globalDnD
  /\ UNCHANGED <<dropVars, tableVars, item>>

InitDrag ==
  /\ DropIdle
  /\ TableIdle
  /\ item \in DraggableItems
  /\ dragState = NoDragState
  /\ globalDnD = NoGlobalDnD
  /\ dragLog = NoDragLog

NextDrag ==
  \/ \E e \in KeyEvents : KeyCapture(e)
  \/ PointerDragStart
  \/ DragButtonPress
  \/ UseDraggableItem
  \/ \E internal \in BOOLEAN : SetDropCollection(internal)
  \/ \E dropOperation \in DropOperations : OnDragEnd(dropOperation)

SpecDrag == InitDrag /\ [][NextDrag]_vars

\* C22: for an item with hasAction and no drag button, useDrag's key down and
\* key up capture handlers are invoked only for key events with the Alt key
\* held; a key event without Alt never reaches them, so no keyboard drag
\* starts without Alt.
C22_AltRequiredWithAction ==
  (dragLog.op = "key" /\ item.hasAction /\ ~item.hasDragButton) =>
    /\ dragLog.reached => dragLog.e.altKey
    /\ ~dragLog.e.altKey => (/\ ~dragLog.reached
                            /\ ~dragLog.started
                            /\ dragState = NoDragState)
    /\ dragLog.started => dragLog.e.altKey

\* Alt+Enter released on an item with an action: the handler ran and the
\* keyboard drag started.
C22_Witness ==
  /\ dragLog.op = "key"
  /\ item.hasAction /\ ~item.hasDragButton /\ ~item.isDisabled
  /\ dragLog.e = [type |-> "keyup", key |-> "Enter", altKey |-> TRUE]
  /\ dragLog.reached
  /\ dragLog.started
  /\ dragState.draggingKeys = GetKeysForDrag(item)

\* C30: on drag end, state.endDrag receives keys = the state's draggingKeys,
\* isInternal = false whenever the drop operation is 'cancel', whatever the
\* module-scope internal-drop flag says, and isInternal = that flag for every
\* other drop operation.
C30_EndDragIsInternal ==
  dragLog.op = "dragEnd" =>
    /\ dragLog.keys = dragLog.draggingKeys
    /\ dragLog.keys # {}
    /\ dragLog.dropOperation = "cancel" => ~dragLog.isInternal
    /\ dragLog.dropOperation # "cancel" =>
         dragLog.isInternal = dragLog.global.isInternal

\* A drag cancelled while the module-scope flag said the drop was internal:
\* endDrag was told it was not.
C30_Witness ==
  /\ dragLog.op = "dragEnd"
  /\ dragLog.dropOperation = "cancel"
  /\ dragLog.global.isInternal
  /\ ~dragLog.isInternal
  /\ dragLog.keys = GetKeysForDrag(item)

\* The names of the calls a handler made, in order.
CallNames(calls) == [i \in 1..Len(calls) |-> calls[i].fn]

\* The last event started a drag of the item.
DragStarted ==
  \/ dragLog.op = "dragStart"
  \/ dragLog.op = "key" /\ dragLog.started

\* C31: the module-scope drag state follows the gesture: on drag start the
\* dragging keys are published only after state.startDrag has run, on drag
\* end the module-scope state is cleared only after state.endDrag has been
\* called, so endDrag still sees the internal-drop flag, and after every drag
\* end, whatever the drop operation, the module-scope state is cleared.
C31_GlobalStateLifecycle ==
  /\ DragStarted =>
       /\ CallNames(dragLog.calls) = <<"startDrag", "setDraggingKeys">>
       /\ dragLog.calls[2].keys = GetKeysForDrag(item)
       /\ globalDnD.draggingKeys = dragState.draggingKeys
       /\ globalDnD.draggingKeys # {}
  /\ dragLog.op = "dragEnd" =>
       /\ CallNames(dragLog.calls) = <<"endDrag", "clearGlobalDnDState">>
       /\ EndDragCall(dragLog.calls).global = dragLog.global
       /\ globalDnD = NoGlobalDnD
       /\ dragState = NoDragState

\* A drag that ended with 'move' while the drop was internal: endDrag was
\* told so, and the module-scope state is clear afterwards.
C31_Witness ==
  /\ dragLog.op = "dragEnd"
  /\ dragLog.dropOperation = "move"
  /\ dragLog.global.isInternal
  /\ dragLog.global.draggingKeys # {}
  /\ EndDragCall(dragLog.calls).isInternal
  /\ globalDnD = NoGlobalDnD

\* C32: for an item the selection manager reports as disabled, the hook
\* returns an empty dragProps object and dragButtonProps with isDisabled
\* set, whatever hasDragButton and hasAction are; no event on a disabled item
\* reaches useDrag, and no drag of it ever starts.
C32_DisabledItemInert ==
  item.isDisabled =>
    /\ ReturnedDragProps(item) = {}
    /\ ReturnedDragButtonProps(item).isDisabled
    /\ dragLog.op = "render" =>
         /\ dragLog.dragProps = {}
         /\ dragLog.dragButtonProps.isDisabled
    /\ dragLog.op = "key" => ~dragLog.reached
    /\ ~DragStarted
    /\ dragState = NoDragState
    /\ globalDnD = NoGlobalDnD

\* The hook has returned for a disabled item that has a drag button and an
\* action: nothing in dragProps, a disabled drag button.
C32_Witness ==
  /\ item.isDisabled
  /\ item.hasDragButton
  /\ item.hasAction
  /\ dragLog.op = "render"
  /\ dragLog.dragProps = {}
  /\ dragLog.dragButtonProps.isDisabled
  /\ "onPress" \in dragLog.dragButtonProps.handlers

\* ======================================================= column headers
\* ResizableTableColumnHeader(props): the component renders, or throws the
\* configuration error when width and allowsResizing are both truthy.
ResizableTableColumnHeader(c) ==
  IF WidthTruthy(c.width) /\ c.allowsResizing
  THEN "Error"
  ELSE "ResizableTableColumnHeader"

\* The 'column' case of the table's renderWrapper: which header component a
\* column is rendered with.
RenderWrapper(c) ==
  IF c.isSelectionCell THEN "TableSelectAllCell"
  ELSE IF c.hideHeader THEN "TableColumnHeader"
  ELSE IF c.allowsResizing THEN ResizableTableColumnHeader(c)
  ELSE "TableColumnHeader"

\* The ids of the entries of the resizable header's menu.
MenuItems(c) ==
  (IF c.allowsSorting THEN {"sort-asc", "sort-desc"} ELSE {}) \cup {"resize"}

\* The column header is rendered for the first time.
RenderColumnHeader ==
  /\ header = "none"
  /\ header' = RenderWrapper(column)
  /\ UNCHANGED <<dropVars, column, tableState, loadVars, dragVars>>

\* onMenuSelect(key) of a rendered resizable header.
OnMenuSelect(key) ==
  /\ header = "ResizableTableColumnHeader"
  /\ key \in MenuItems(column)
  /\ tableState' =
       CASE key = "sort-asc" -> [tableState EXCEPT !.sortDescriptor = "ascending"]
         [] key = "sort-desc" -> [tableState EXCEPT !.sortDescriptor = "descending"]
         [] key = "resize" -> [tableState EXCEPT !.currentlyResizingColumn = TRUE,
                                                 !.isInResizeMode = TRUE]
  /\ UNCHANGED <<dropVars, column, header, loadVars, dragVars>>

InitTable ==
  /\ DropIdle
  /\ DragIdle
  /\ LoadIdle
  /\ column \in ColumnProps
  /\ header = "none"
  /\ tableState = NoTableState

NextTable ==
  \/ RenderColumnHeader
  \/ \E key \in {"sort-asc", "sort-desc", "resize"} : OnMenuSelect(key)

SpecTable == InitTable /\ [][NextTable]_vars

\* The column is rendered with the resizable header and has both a width prop
\* and allowsResizing.
ControlledResizable ==
  /\ ~column.isSelectionCell /\ ~column.hideHeader
  /\ column.allowsResizing
  /\ column.width # NoWidth

\* C21: a resizable column header configured with both a controlled width and
\* allowsResizing throws the configuration error when it is rendered, and no
\* sort or resize action is ever taken on that column.
C21_ControlledWidthFailsFast ==
  ControlledResizable =>
    /\ header \in {"none", "Error"}
    /\ tableState = NoTableState

\* ========================================================== loading more
\* Mutant of IsLoading: only the initial load counts.
IsLoadingInitialOnly(v) == v.loadingState = "loading"

\* isLoading: loadingState === 'loading' || loadingState === 'loadingMore'.
IsLoading(v) == v.loadingState = "loading" \/ v.loadingState = "loadingMore"

\* Whether onVisibleRectChange(rect) invokes onLoadMore: not loading, an
\* onLoadMore given, and rect.y beyond content height - 2 * rect.height.
VisibleRectLoadsMore(v, rect) ==
  IF ~IsLoading(v) /\ v.onLoadMore # NoOnLoadMore
  THEN LET scrollOffset == v.contentHeight - rect.height * 2
       IN rect.y > scrollOffset
  ELSE FALSE

\* Whether the layout effect invokes onLoadMore: not loading, an onLoadMore
\* given, no animation, and the content no higher than the visible rect.
LayoutEffectLoadsMore(v) ==
  IF ~IsLoading(v) /\ v.onLoadMore # NoOnLoadMore /\ ~v.isAnimating
  THEN v.contentHeight <= v.visibleRect.height
  ELSE FALSE

\* The dependencies of the layout effect; state.virtualizer never changes.
LayoutEffectDeps(v) ==
  <<v.contentHeight, v.isAnimating, v.onLoadMore, IsLoading(v)>>

\* The component renders with the virtualizer state v; the layout effect
\* runs if it is the first render or one of its dependencies has changed.
RenderTable(op, v, first) ==
  LET effect == first \/ LayoutEffectDeps(v) # LayoutEffectDeps(virtualizer)
  IN /\ virtualizer' = v
     /\ loadLog' = [op |-> op, effect |-> effect,
                    invoked |-> effect /\ LayoutEffectLoadsMore(v)]

\* onVisibleRectChange(rect): the table width and the virtualizer's visible
\* rect are set, more rows are asked for near the end of the content.  The
\* render that setTableWidth causes changes no dependency of the effect.
OnVisibleRectChange(rect) ==
  /\ loadLog # NoLoadLog
  /\ virtualizer' = [virtualizer EXCEPT !.tableWidth = rect.width,
                                        !.visibleRect = rect]
  /\ loadLog' = [op |-> "onVisibleRectChange", effect |-> FALSE,
                 invoked |-> VisibleRectLoadsMore(virtualizer, rect)]
  /\ UNCHANGED <<dropVars, column, header, tableState, dragVars>>

\* The host renders the table body with other loading props.
SetLoadingProps(loadingState, onLoadMore) ==
  /\ loadLog # NoLoadLog
  /\ <<loadingState, onLoadMore>> # <<virtualizer.loadingState, virtualizer.onLoadMore>>
  /\ RenderTable("props",
                 [virtualizer EXCEPT !.loadingState = loadingState,
                                     !.onLoadMore = onLoadMore], FALSE)
  /\ UNCHANGED <<dropVars, column, header, tableState, dragVars>>

\* The virtualizer reports another content size.
SetContentSize(height) ==
  /\ loadLog # NoLoadLog
  /\ height # virtualizer.contentHeight
  /\ RenderTable("contentSize",
                 [virtualizer EXCEPT !.contentHeight = height], FALSE)
  /\ UNCHANGED <<dropVars, column, header, tableState, dragVars>>

\* An animation of the virtualizer starts or ends.
SetIsAnimating(isAnimating) ==
  /\ loadLog # NoLoadLog
  /\ isAnimating # virtualizer.isAnimating
  /\ RenderTable("isAnimating",
                 [virtualizer EXCEPT !.isAnimating = isAnimating], FALSE)
  /\ UNCHANGED <<dropVars, column, header, tableState, dragVars>>

\* The table virtualizer mounts with nothing laid out or scrolled yet:
\* first render, the layout effect runs.
MountTable(v) ==
  /\ loadLog = NoLoadLog
  /\ v.contentHeight = 0 /\ v.visibleRect.y = 0 /\ ~v.isAnimating
  /\ v.tableWidth = v.visibleRect.width
  /\ RenderTable("mount", v, TRUE)
  /\ UNCHANGED <<dropVars, column, header, tableState, dragVars>>

InitLoad ==
  /\ DropIdle
  /\ DragIdle
  /\ TableIdle

NextLoad ==
  \/ \E v \in VirtualizerStates : MountTable(v)
  \/ \E rect \in Rects : OnVisibleRectChange(rect)
  \/ \E loadingState \in LoadingStates, onLoadMore \in OnLoadMoreProps :
       SetLoadingProps(loadingState, onLoadMore)
  \/ \E height \in Heights : SetContentSize(height)
  \/ \E isAnimating \in BOOLEAN : SetIsAnimating(isAnimating)

SpecLoad == InitLoad /\ [][NextLoad]_vars

\* C33: the table never asks for more rows while a load is in progress:
\* onLoadMore is invoked only when loadingState is neither 'loading' nor
\* 'loadingMore', and then only when the visible rect's y exceeds the content
\* height less twice the visible height (on a visible-rect change), or when
\* the content is no higher than the visible rect and nothing is animating
\* (after layout).
C33_LoadMoreOnlyWhenNotLoading ==
  loadLog.invoked =>
    /\ virtualizer.loadingState \notin {"loading", "loadingMore"}
    /\ virtualizer.onLoadMore # NoOnLoadMore
    /\ IF loadLog.op = "onVisibleRectChange"
       THEN virtualizer.visibleRect.y >
              virtualizer.contentHeight - 2 * virtualizer.visibleRect.height
       ELSE /\ loadLog.effect
            /\ virtualizer.contentHeight <= virtualizer.visibleRect.height
            /\ ~virtualizer.isAnimating

\* Scrolling near the end of content higher than the visible rect asked for
\* more rows while the body was filtering.
C33_Witness ==
  /\ loadLog.op = "onVisibleRectChange"
  /\ loadLog.invoked
  /\ virtualizer.loadingState = "filtering"
  /\ virtualizer.contentHeight > virtualizer.visibleRect.height
  /\ virtualizer.visibleRect.y > 0

====
